---- MODULE Spec2Model ----
(***************************************************************************)
(* RangeHTTPServer: SimpleHTTPRequestHandler with support for 'Range:'     *)
(* requests (src/RangeHTTPServer/__init__.py).                             *)
(*                                                                         *)
(* One handler object serves the requests of one connection, one after     *)
(* the other.  An exchange is: the request arrives (handle_request), the   *)
(* inherited do_GET calls send_head, and when send_head returned a file    *)
(* object, copyfile and then f.close().  The copy loop of copyfile is      *)
(* modelled one chunk per step.                                            *)
(*                                                                         *)
(* Text (header values, paths) is a sequence of one-character strings, a   *)
(* file is the sequence of its bytes.  Python's None is the integer None   *)
(* for an optional number, and the empty tuple for self.range.             *)
(***************************************************************************)
EXTENDS Integers, Sequences, FiniteSets, TLC

\* Bounds of the model.
MaxLen == 3     \* the served file has 0..MaxLen bytes
MaxBuf == 2     \* chunk sizes 1..MaxBuf are tried for BUFSIZE
MaxNum == 3     \* offsets 0..MaxNum are written in Range headers ...
Far == 10       \* ... and one offset MaxNum + Far, far past the end of the file
MaxParse == 120 \* ParseSpec: offsets 0..MaxParse are written (1 to 3 digits)

VARIABLES
    disk,          \* the bytes of the file /f on disk
    BUFSIZE,       \* the chunk size of copyfile
    path,          \* self.path of the current request
    headers,       \* self.headers of the current request
    range,         \* self.range
    file_length,   \* self.file_length
    f,             \* the file object opened in this exchange
    status,        \* the status lines written to the client, in order
    hdrs,          \* the response headers written, in order, <<name, value>>
    body,          \* the bytes written to the client by copyfile
    acc,           \* copyfile's acc
    approx_bytes,  \* copyfile's approx_bytes
    exc,           \* the exception that ended the exchange, or "none"
    pc,            \* where the exchange is
    asked,         \* history: the offsets the client wrote in the Range header
    stale,         \* history: self.range was set when this request arrived
    plain          \* history: status and body of the last GET of /f without Range

vars == <<disk, BUFSIZE, path, headers, range, file_length, f, status, hdrs,
          body, acc, approx_bytes, exc, pc, asked, stale, plain>>

----------------------------------------------------------------------------
\* Python values

None == -1

\* bool(x) of an optional number: None and 0 are false
Truthy(x) == x # None /\ x # 0

NoRange == <<>>

DigitChars == <<"0", "1", "2", "3", "4", "5", "6", "7", "8", "9">>

IsDigit(c) == \E i \in 1..10 : DigitChars[i] = c

DigitValue(c) == CHOOSE d \in 0..9 : DigitChars[d + 1] = c

\* int(x) of a string of digits
RECURSIVE int_rev(_)
int_rev(x) ==
    IF x = <<>> THEN 0
    ELSE 10 * int_rev(Tail(x)) + DigitValue(Head(x))

RECURSIVE int(_)
int(x) ==
    IF x = <<>> THEN 0
    ELSE 10 * int(SubSeq(x, 1, Len(x) - 1)) + DigitValue(x[Len(x)])

\* str(n), '%s' % n of an integer
RECURSIVE str(_)
str(n) ==
    IF n < 0 THEN <<"-">> \o str(-n)
    ELSE IF n < 10 THEN <<DigitChars[n + 1]>>
    ELSE str(n \div 10) \o <<DigitChars[(n % 10) + 1]>>

\* str.strip()
Whitespace == {" ", "\t", "\n", "\r"}

RECURSIVE lstrip(_)
lstrip(s) == IF s # <<>> /\ Head(s) \in Whitespace THEN lstrip(Tail(s)) ELSE s

RECURSIVE rstrip(_)
rstrip(s) ==
    IF s # <<>> /\ s[Len(s)] \in Whitespace
    THEN rstrip(SubSeq(s, 1, Len(s) - 1))
    ELSE s

strip(s) == rstrip(lstrip(s))

----------------------------------------------------------------------------
\* BYTE_RANGE_RE = re.compile(r'bytes=(\d+)-(\d+)?$') and its match()

BytesEq == <<"b", "y", "t", "e", "s", "=">>

\* the index after the longest run of digits of s that starts at i
RECURSIVE DigitRun(_, _)
DigitRun(s, i) ==
    IF i <= Len(s) /\ IsDigit(s[i]) THEN DigitRun(s, i + 1) ELSE i

\* '$' without re.MULTILINE: at the end of the string, or before a newline
\* that ends the string
DollarUnanchored(s, i) == TRUE

Dollar(s, i) == i = Len(s) + 1 \/ (i = Len(s) /\ s[i] = "\n")

NoMatch == [matched |-> FALSE, groups |-> <<>>]

\* match() is anchored at the start of the string. groups: the text of
\* (\d+) and of (\d+)?, the latter <<>> for a group that took no part (None)
BYTE_RANGE_RE_match(s) ==
    IF Len(s) < 6 \/ SubSeq(s, 1, 6) # BytesEq THEN NoMatch
    ELSE LET e1 == DigitRun(s, 7) IN
         IF e1 = 7 \/ e1 > Len(s) \/ s[e1] # "-" THEN NoMatch
         ELSE LET e2 == DigitRun(s, e1 + 1) IN
              IF ~Dollar(s, e2) THEN NoMatch
              ELSE [matched |-> TRUE,
                    groups  |-> <<SubSeq(s, 7, e1 - 1), SubSeq(s, e1 + 1, e2 - 1)>>]

\* x and int(x), x a group of the match
AndInt(x) == IF x = <<>> THEN None ELSE int(x)

\* if last and last < first
Reversed(first, last) == Truthy(last) /\ last < first

ValueError == [ok |-> FALSE, value |-> NoRange]

parse_byte_range(byte_range) ==
    IF strip(byte_range) = <<>> THEN [ok |-> TRUE, value |-> <<None, None>>]
    ELSE LET m == BYTE_RANGE_RE_match(byte_range) IN
         IF ~m.matched THEN ValueError
         ELSE LET first == AndInt(m.groups[1])
                  last  == AndInt(m.groups[2])
              IN IF Reversed(first, last) THEN ValueError
                 ELSE [ok |-> TRUE, value |-> <<first, last>>]

----------------------------------------------------------------------------
\* The requests of the model

\* the header text 'bytes=<a>-<b>' and 'bytes=<a>-'
RangeHeader(a, b) == BytesEq \o str(a) \o <<"-">> \o str(b)

RangeHeaderOpen(a) == BytesEq \o str(a) \o <<"-">>

Nums == (0..MaxNum) \cup {MaxNum + Far}

\* header values that are not of the form bytes=<digits>-<digits>?
OtherValues ==
    { <<>>,                                          \* ''
      <<" ">>,                                       \* ' '
      <<" ", "\t">>,
      BytesEq \o <<"-", "1">>,                       \* bytes=-1, the suffix form
      BytesEq \o <<"0", "-", "1", ",", "2", "-", "3">>, \* two ranges
      <<"i", "t", "e", "m", "s", "=", "0", "-", "1">>,  \* another unit
      BytesEq \o <<"a", "-", "b">>,                  \* bounds that are no numbers
      BytesEq \o <<"1">>,                            \* no dash
      BytesEq \o <<"0", "-", "1", " ">>,             \* 'bytes=0-1 '
      <<" ">> \o BytesEq \o <<"0", "-", "1">>,       \* ' bytes=0-1'
      BytesEq \o <<"0", "-", "1", "\n">>,            \* 'bytes=0-1\n'
      BytesEq \o <<"0", "-", "1", "\n", "\n">>,
      BytesEq \o <<"0", "1", "-", "0", "0", "2">> }  \* bytes=01-002

\* self.headers: a mapping of the header names of the request to their values
NoHeaders == [n \in {} |-> <<>>]

HeadersWith(v) == [n \in {"Range"} |-> v]

\* a request's headers, with the offsets the client meant by them (NoRange
\* when the value is not one the client built from offsets)
Request(a, h) == [asked |-> a, headers |-> h]

Requests ==
    {Request(<<a, b>>, HeadersWith(RangeHeader(a, b))) : a \in Nums, b \in Nums}
        \cup {Request(<<a, None>>, HeadersWith(RangeHeaderOpen(a))) : a \in Nums}
        \cup {Request(NoRange, HeadersWith(v)) : v \in OtherValues}
        \cup {Request(NoRange, NoHeaders)}

\* the file system: /f is a file, /d a directory, /x does not exist
FilePath == <<"/", "f">>

Paths == { FilePath, <<"/", "x">>, <<"/", "d">>, <<"/", "d", "/">> }

endswith_slash(p) == p # <<>> /\ p[Len(p)] = "/"

\* self.translate_path(self.path), as far as the model's paths need it: the
\* file system path has no trailing slash
translate_path(p) ==
    IF Len(p) > 1 /\ endswith_slash(p) THEN SubSeq(p, 1, Len(p) - 1) ELSE p

Entry(fspath) ==
    IF fspath = FilePath THEN "file"
    ELSE IF fspath = <<"/", "d">> THEN "dir"
    ELSE "missing"

\* open(path, 'rb') raises IOError for a missing file and for a directory
open_any(fspath) == Entry(fspath) # "missing"

open_ok(fspath) == Entry(fspath) = "file"

\* the bytes of a directory listing (list_directory's BytesIO)
Listing == <<254, 255>>

\* file objects: what they read, the read position, whether close() was called
NoFile == [kind |-> "none", pos |-> 0, closed |-> TRUE]

OpenFile(kind) == [kind |-> kind, pos |-> 0, closed |-> FALSE]

Content(kind, d) ==
    IF kind = "file" THEN d ELSE IF kind = "listing" THEN Listing ELSE <<>>

\* source.read(n) at position pos: at most n bytes, all that is left for n < 0
read(data, pos, n) ==
    IF n < 0 THEN SubSeq(data, pos + 1, Len(data))
    ELSE SubSeq(data, pos + 1, IF pos + n < Len(data) THEN pos + n ELSE Len(data))

\* abstract values of the headers the model does not look into
ctype == <<"c", "t", "y", "p", "e">>

mtime == <<"m", "t", "i", "m", "e">>

----------------------------------------------------------------------------
\* send_head

\* what send_head leaves behind: self.range, self.file_length, the file
\* object, the status lines and headers written, the exception raised, and
\* whether it returned the file object
Outcome(r, fl, fo, st, hs, e, ret) ==
    [range |-> r, file_length |-> fl, f |-> fo, status |-> st, hdrs |-> hs,
     exc |-> e, returned |-> ret]

\* SimpleHTTPRequestHandler.send_head on the model's paths: a file is
\* answered 200 with its length, a directory path without the slash is
\* redirected, a directory is listed, anything else is 404
SimpleHTTPRequestHandler_send_head(p, d) ==
    LET e == Entry(translate_path(p)) IN
    IF e = "dir" /\ ~endswith_slash(p)
    THEN [status |-> <<301>>, hdrs |-> <<<<"Location", p \o <<"/">>>>>>, f |-> NoFile]
    ELSE IF e = "dir"
    THEN [status |-> <<200>>,
          hdrs |-> << <<"Content-type", ctype>>,
                      <<"Content-Length", str(Len(Listing))>> >>,
          f |-> OpenFile("listing")]
    ELSE IF e = "file" /\ ~endswith_slash(p)
    THEN [status |-> <<200>>,
          hdrs |-> << <<"Content-type", ctype>>,
                      <<"Content-Length", str(Len(d))>>,
                      <<"Last-Modified", mtime>> >>,
          f |-> OpenFile("file")]
    ELSE [status |-> <<404>>, hdrs |-> <<>>, f |-> NoFile]

\* if 'Range' not in self.headers or self.path.endswith('/')
Delegated(p, h) == "Range" \notin DOMAIN h \/ endswith_slash(p)

\* if first >= file_len
UnsatisfiableGt(first, file_len) == first > file_len

Unsatisfiable(first, file_len) == first >= file_len

\* if last is None or last >= file_len: last = file_len - 1
ClampLastGt(last, file_len) ==
    IF last = None \/ last > file_len THEN file_len - 1 ELSE last

ClampLast(last, file_len) ==
    IF last = None \/ last >= file_len THEN file_len - 1 ELSE last

ContentRange(first, last, file_len) ==
    <<"b", "y", "t", "e", "s", " ">> \o str(first) \o <<"-">> \o str(last)
        \o <<"/">> \o str(file_len)

\* the headers of the 206 response
PartialHeaders(first, last, file_len) ==
    << <<"Content-type", ctype>>,
       <<"Accept-Ranges", <<"b", "y", "t", "e", "s">>>>,
       <<"Content-Range", ContentRange(first, last, file_len)>>,
       <<"Content-Length", str(last - first + 1)>>,
       <<"Last-Modified", mtime>> >>

\* self.range = None, first thing in send_head
keep_range(old) == old

reset_range(old) == NoRange

\* old = f.tell(); f.seek(0, os.SEEK_END); self.file_length = f.tell();
\* f.seek(old, os.SEEK_SET): the file object after it, n the length
left_at_end(fo, n) == [fo EXCEPT !.pos = n]

seek_back(fo, n) == [fo EXCEPT !.pos = fo.pos]

SendHead(p, h, d) ==
    IF Delegated(p, h)
    THEN LET r == SimpleHTTPRequestHandler_send_head(p, d) IN
         Outcome(reset_range(range),
                 IF r.f # NoFile THEN Len(Content(r.f.kind, d)) ELSE None,
                 IF r.f # NoFile THEN seek_back(r.f, Len(Content(r.f.kind, d)))
                                 ELSE r.f,
                 r.status, r.hdrs, "none", r.f # NoFile)
    ELSE LET parsed == parse_byte_range(h["Range"]) IN
         IF ~parsed.ok
         THEN Outcome(reset_range(range), None, NoFile, <<400>>, <<>>, "none", FALSE)
         ELSE LET first  == parsed.value[1]
                  last   == parsed.value[2]
                  fspath == translate_path(p)
              IN
              IF ~open_ok(fspath)
              THEN Outcome(parsed.value, None, NoFile, <<404>>, <<>>, "none", FALSE)
              ELSE LET file_len == Len(d) IN
                   \* first >= file_len with first None raises TypeError in
                   \* Python 3; Python 2 goes on to last - first + 1, which
                   \* raises it: nothing was sent, the file stays open
                   IF first = None
                   THEN Outcome(parsed.value, file_len, OpenFile("file"),
                                <<>>, <<>>, "TypeError", FALSE)
                   ELSE IF Unsatisfiable(first, file_len)
                   THEN Outcome(parsed.value, file_len, OpenFile("file"),
                                <<416>>, <<>>, "none", FALSE)
                   ELSE Outcome(parsed.value, file_len, OpenFile("file"),
                                <<206>>,
                                PartialHeaders(first, ClampLast(last, file_len),
                                               file_len),
                                "none", TRUE)

----------------------------------------------------------------------------
\* copyfile

Min(a, b) == IF a < b THEN a ELSE b

\* to_read = min(BUFSIZE, stop + 1 - source.tell() if stop else BUFSIZE)
to_read_excl(stop, tell, bufsize) ==
    Min(bufsize, IF Truthy(stop) THEN stop - tell ELSE bufsize)

to_read(stop, tell, bufsize) ==
    Min(bufsize, IF Truthy(stop) THEN stop + 1 - tell ELSE bufsize)

\* approx_start = start if start else 0
approx_start(start) == IF Truthy(start) THEN start ELSE 0

\* approx_stop = stop if stop else self.file_length
approx_stop(stop, fl) == IF Truthy(stop) THEN stop ELSE fl

\* if start is not None: source.seek(start)
seek_start(fo, start) == IF start # None THEN [fo EXCEPT !.pos = start] ELSE fo

----------------------------------------------------------------------------
\* The exchanges

Init ==
    /\ disk \in {[i \in 1..n |-> i - 1] : n \in 0..MaxLen}
    /\ BUFSIZE \in 1..MaxBuf
    /\ path = FilePath
    /\ headers = NoHeaders
    /\ range = NoRange
    /\ file_length = None
    /\ f = NoFile
    /\ status = <<>>
    /\ hdrs = <<>>
    /\ body = <<>>
    /\ acc = 0
    /\ approx_bytes = 0
    /\ exc = "none"
    /\ pc = "idle"
    /\ asked = NoRange
    /\ stale = FALSE
    /\ plain = [status |-> <<>>, body |-> <<>>]

\* a GET arrives on the connection: nothing of the response is written yet.
\* self.range and self.file_length are the handler's and stay as they are
handle_request ==
    /\ pc \in {"idle", "done"}
    /\ \E p \in Paths, r \in Requests :
         /\ path' = p
         /\ headers' = r.headers
         /\ asked' = r.asked
    /\ stale' = (range # NoRange)
    /\ f' = NoFile
    /\ status' = <<>>
    /\ hdrs' = <<>>
    /\ body' = <<>>
    /\ acc' = 0
    /\ approx_bytes' = 0
    /\ exc' = "none"
    /\ pc' = "send_head"
    /\ UNCHANGED <<disk, BUFSIZE, range, file_length, plain>>

\* do_GET: f = self.send_head(); if f: copyfile. A file that send_head
\* opened and did not return is never closed by the code: whether it is
\* released by the end of the exchange is up to the interpreter's collector
send_head ==
    /\ pc = "send_head"
    /\ LET r == SendHead(path, headers, disk) IN
         /\ range' = r.range
         /\ file_length' = r.file_length
         /\ IF r.f # NoFile /\ ~r.returned
            THEN \E c \in BOOLEAN : f' = [r.f EXCEPT !.closed = c]
            ELSE f' = r.f
         /\ status' = r.status
         /\ hdrs' = r.hdrs
         /\ exc' = r.exc
         /\ pc' = IF r.returned THEN "copyfile" ELSE "done"
    /\ UNCHANGED <<disk, BUFSIZE, path, headers, body, acc, approx_bytes,
                   asked, stale, plain>>

\* copyfile up to the loop
copyfile ==
    /\ pc = "copyfile"
    /\ IF range = NoRange
       THEN /\ pc' = "copyfileobj"
            /\ UNCHANGED <<f, acc, approx_bytes>>
       ELSE LET start == range[1]
                stop  == range[2]
            IN /\ approx_bytes' = approx_stop(stop, file_length) - approx_start(start)
               /\ acc' = 0
               /\ f' = seek_start(f, start)
               /\ pc' = "loop"
    /\ UNCHANGED <<disk, BUFSIZE, path, headers, range, file_length,
                   status, hdrs, body, exc, asked, stale, plain>>

\* one turn of the loop of copyfile; after the loop copyfile returns and
\* do_GET closes the file, as it does when copyfile raises
copyfile_loop ==
    /\ pc = "loop"
    /\ LET n   == to_read(range[2], f.pos, BUFSIZE)
           buf == read(Content(f.kind, disk), f.pos, n)
       IN IF buf = <<>>
          THEN /\ f' = [f EXCEPT !.closed = TRUE]
               /\ pc' = "done"
               /\ UNCHANGED <<body, acc, exc>>
          ELSE /\ body' = body \o buf
               /\ acc' = acc + n
               \* percent = acc * 100 / approx_bytes
               /\ IF approx_bytes = 0
                  THEN /\ exc' = "ZeroDivisionError"
                       /\ f' = [f EXCEPT !.pos = @ + Len(buf), !.closed = TRUE]
                       /\ pc' = "done"
                  ELSE /\ exc' = exc
                       /\ f' = [f EXCEPT !.pos = @ + Len(buf)]
                       /\ pc' = "loop"
    /\ UNCHANGED <<disk, BUFSIZE, path, headers, range, file_length,
                   status, hdrs, approx_bytes, asked, stale, plain>>

\* SimpleHTTPRequestHandler.copyfile: shutil.copyfileobj copies all that is
\* left of the source; do_GET closes the file
copyfileobj ==
    /\ pc = "copyfileobj"
    /\ LET data == Content(f.kind, disk) IN
         /\ body' = body \o SubSeq(data, f.pos + 1, Len(data))
         /\ f' = [f EXCEPT !.pos = Len(data), !.closed = TRUE]
    /\ pc' = "done"
    /\ plain' = IF path = FilePath /\ "Range" \notin DOMAIN headers
                THEN [status |-> status, body |-> body']
                ELSE plain
    /\ UNCHANGED <<disk, BUFSIZE, path, headers, range, file_length,
                   status, hdrs, acc, approx_bytes, exc, asked, stale>>

\* a read from the file or a write to the client fails during the copy: the
\* exception leaves copyfile and do_GET closes the file
copy_io_error ==
    /\ pc \in {"loop", "copyfileobj"}
    /\ exc' = "IOError"
    /\ f' = [f EXCEPT !.closed = TRUE]
    /\ pc' = "done"
    /\ UNCHANGED <<disk, BUFSIZE, path, headers, range, file_length,
                   status, hdrs, body, acc, approx_bytes, asked, stale, plain>>

Next ==
    \/ handle_request
    \/ send_head
    \/ copyfile
    \/ copyfile_loop
    \/ copyfileobj
    \/ copy_io_error

Spec == Init /\ [][Next]_vars

----------------------------------------------------------------------------
\* The parser alone, on header values with offsets of one to three digits

ParseRequests ==
    {Request(<<a, b>>, HeadersWith(RangeHeader(a, b))) :
        a \in 0..MaxParse, b \in 0..MaxParse}
        \cup {Request(<<a, None>>, HeadersWith(RangeHeaderOpen(a))) : a \in 0..MaxParse}
        \cup {Request(NoRange, HeadersWith(v)) : v \in OtherValues}

ParseInit ==
    /\ disk = <<>>
    /\ BUFSIZE = 1
    /\ path = FilePath
    /\ \E r \in ParseRequests :
         /\ headers = r.headers
         /\ asked = r.asked
    /\ range = NoRange
    /\ file_length = None
    /\ f = NoFile
    /\ status = <<>>
    /\ hdrs = <<>>
    /\ body = <<>>
    /\ acc = 0
    /\ approx_bytes = 0
    /\ exc = "none"
    /\ pc = "parse"
    /\ stale = FALSE
    /\ plain = [status |-> <<>>, body |-> <<>>]

\* self.range = parse_byte_range(self.headers['Range'])
parse ==
    /\ pc = "parse"
    /\ LET r == parse_byte_range(headers["Range"]) IN
         /\ range' = r.value
         /\ exc' = IF r.ok THEN "none" ELSE "ValueError"
    /\ pc' = "parsed"
    /\ UNCHANGED <<disk, BUFSIZE, path, headers, file_length, f, status, hdrs,
                   body, acc, approx_bytes, asked, stale, plain>>

ParseSpec == ParseInit /\ [][parse]_vars

----------------------------------------------------------------------------
\* What the client sees of the exchange

\* send_head has run for the current request
Answered == pc \in {"copyfile", "loop", "copyfileobj", "done"}

\* the request is one the range branch of send_head handles
Ranged == "Range" \in DOMAIN headers /\ ~endswith_slash(path)

\* the exchange is over and no read or write failed during the copy
Completed == pc = "done" /\ exc # "IOError"

HasHeader(name) == \E i \in 1..Len(hdrs) : hdrs[i][1] = name

HeaderValue(name) == hdrs[CHOOSE i \in 1..Len(hdrs) : hdrs[i][1] = name][2]

\* the numbers A, B, L a client reads in 'Content-Range: bytes A-B/L'
Announced ==
    LET v  == HeaderValue("Content-Range")
        e1 == DigitRun(v, 7)
        e2 == DigitRun(v, e1 + 1)
        e3 == DigitRun(v, e2 + 1)
    IN [first  |-> int(SubSeq(v, 7, e1 - 1)),
        last   |-> int(SubSeq(v, e1 + 1, e2 - 1)),
        length |-> int(SubSeq(v, e2 + 1, e3 - 1))]

\* a header value of the form bytes=<digits>-<digits>?
IsRangeForm(v) ==
    /\ Len(v) > 6
    /\ SubSeq(v, 1, 6) = BytesEq
    /\ LET e1 == DigitRun(v, 7) IN
         /\ e1 > 7
         /\ e1 <= Len(v)
         /\ v[e1] = "-"
         /\ DigitRun(v, e1 + 1) = Len(v) + 1

----------------------------------------------------------------------------
\* C1: for every GET answered 206 whose copy was not cut short by a failed
\* read or write, the body is exactly the file's bytes first..last, first and
\* last the offsets announced in Content-Range, and the number of body bytes
\* is the Content-Length. Stated for the requests whose bounds are not
\* reversed, which leaves the reversed pair that C6 is about aside.
\* (Violated: 'bytes=0-0' announces one byte and sends the whole file.)
NotReversed == asked = NoRange \/ asked[2] = None \/ asked[1] <= asked[2]

C1_CopyExact ==
    (Completed /\ status = <<206>> /\ NotReversed) =>
        /\ HeaderValue("Content-Range")
             = ContentRange(Announced.first, Announced.last, Len(disk))
        /\ body = SubSeq(disk, Announced.first + 1, Announced.last + 1)
        /\ HeaderValue("Content-Length") = str(Len(body))

\* C2: every 206 response announces first and last with
\* 0 <= first <= last <= file_length - 1 and a Content-Length of
\* last - first + 1 >= 1. (Violated: 'bytes=1-0' is announced as 1-0.)
C2_ResolvedRange ==
    status = <<206>> =>
        /\ HeaderValue("Content-Range")
             = ContentRange(Announced.first, Announced.last, Len(disk))
        /\ 0 <= Announced.first
        /\ Announced.first <= Announced.last
        /\ Announced.last <= Len(disk) - 1
        /\ HeaderValue("Content-Length") = str(Announced.last - Announced.first + 1)
        /\ Announced.last - Announced.first + 1 >= 1

\* C3: a 206 response to the parsed range (first, last) on a file of L bytes
\* has first < L and carries Content-Range 'bytes first-(L-1)/L' and
\* Content-Length L - first when last is absent or last >= L, and
\* 'bytes first-last/L' and last - first + 1 otherwise; a completed copy for
\* first = L - 1 and last >= L sends exactly the last byte of the file.
C3_Clamping ==
    status = <<206>> =>
        LET first == range[1]
            last  == range[2]
            L     == Len(disk)
        IN /\ first # None
           /\ first < L
           /\ IF last = None \/ last >= L
              THEN /\ HeaderValue("Content-Range")
                        = <<"b", "y", "t", "e", "s", " ">> \o str(first) \o <<"-">>
                              \o str(L - 1) \o <<"/">> \o str(L)
                   /\ HeaderValue("Content-Length") = str(L - first)
              ELSE /\ HeaderValue("Content-Range")
                        = <<"b", "y", "t", "e", "s", " ">> \o str(first) \o <<"-">>
                              \o str(last) \o <<"/">> \o str(L)
                   /\ HeaderValue("Content-Length") = str(last - first + 1)
           /\ (Completed /\ first = L - 1 /\ last # None /\ last >= L)
                 => body = <<disk[L]>>

\* the boundary case of C3: bytes=(L-1)-(far past L) was answered with one byte
C3_Witness ==
    /\ Completed
    /\ status = <<206>>
    /\ Len(disk) = MaxLen
    /\ asked = <<MaxLen - 1, MaxNum + Far>>
    /\ HeaderValue("Content-Length") = <<"1">>
    /\ body = <<MaxLen - 1>>

\* C4 as stated: a ranged GET of the file whose header matches
\* bytes=<A>-<B>? is answered 416 with no file bytes when A >= L and 206 when
\* A < L. (Violated: 'bytes=2-1' matches and is answered 400.)
C4_AsStated ==
    (Answered /\ Ranged /\ path = FilePath /\ IsRangeForm(headers["Range"])) =>
        LET A == int(SubSeq(headers["Range"], 7, DigitRun(headers["Range"], 7) - 1))
        IN IF A >= Len(disk)
           THEN status = <<416>> /\ body = <<>>
           ELSE status = <<206>>

\* C4, amended: a ranged GET of the file whose header parse_byte_range
\* accepts with a first offset A is answered 416 with no file bytes when
\* A >= L and 206 when A < L.
C4_Satisfiable ==
    (Answered /\ Ranged /\ path = FilePath /\ range # NoRange /\ range[1] # None) =>
        IF range[1] >= Len(disk)
        THEN status = <<416>> /\ body = <<>>
        ELSE status = <<206>>

\* the case bytes=<L>-<far past L> of C4: 416, nothing copied
C4_Witness ==
    /\ pc = "done"
    /\ Len(disk) = MaxLen
    /\ asked = <<MaxLen, MaxNum + Far>>
    /\ path = FilePath
    /\ status = <<416>>
    /\ body = <<>>

\* C5: for first <= last, parse_byte_range('bytes=<first>-<last>') returns
\* (first, last) and parse_byte_range('bytes=<first>-') returns (first, None),
\* the offsets as written.
C5_RoundTrip ==
    (pc = "parsed" /\ asked # NoRange /\ (asked[2] = None \/ asked[1] <= asked[2])) =>
        exc = "none" /\ range = asked

\* offsets of two and three digits came back as written
C5_Witness ==
    /\ pc = "parsed"
    /\ asked = <<17, 105>>
    /\ range = <<17, 105>>
    /\ headers["Range"] = BytesEq \o <<"1", "7", "-", "1", "0", "5">>

\* C6: for a < b, 'bytes=<b>-<a>' is rejected by parse_byte_range and the
\* handler answers 400. (Violated: 'bytes=1-0' is accepted, as 0 is false.)
C6_ReversedRejected ==
    (Answered /\ Ranged /\ asked # NoRange /\ asked[2] # None /\ asked[2] < asked[1]) =>
        range = NoRange /\ status = <<400>>

\* C7: a ranged GET whose header value is, after trimming, neither empty nor
\* of the form bytes=<digits>-<digits>? is rejected by the parser and
\* answered 400 with no file opened; and a value that the parser accepted
\* without being of that form after trimming is empty after trimming and
\* gave (None, None).
C7_MalformedRejected ==
    (Answered /\ Ranged) =>
        LET t == strip(headers["Range"]) IN
        /\ (t # <<>> /\ ~IsRangeForm(t))
              => (range = NoRange /\ status = <<400>> /\ f = NoFile /\ body = <<>>)
        /\ (range # NoRange /\ ~IsRangeForm(t))
              => (t = <<>> /\ range = <<None, None>>)

\* the suffix form bytes=-1 was answered 400
C7_Witness ==
    /\ pc = "done"
    /\ Ranged
    /\ headers["Range"] = BytesEq \o <<"-", "1">>
    /\ status = <<400>>
    /\ f = NoFile

\* C8 as stated: a GET with any Range header for a path that is no file is
\* answered 404. (Violated: a header the parser rejects is answered 400.)
C8_AsStated ==
    (Answered /\ Ranged /\ ~open_ok(translate_path(path))) => status = <<404>>

\* C8, amended: a GET with a Range header that parse_byte_range accepts,
\* satisfiable or not, for a path that is no file is answered 404; with a
\* header that it rejects the answer is 400.
C8_NotFound ==
    (Answered /\ Ranged /\ Entry(translate_path(path)) # "file") =>
        /\ status = IF range # NoRange THEN <<404>> ELSE <<400>>
        /\ f = NoFile
        /\ body = <<>>

\* a range far past anything was asked of a missing file: 404
C8_Witness ==
    /\ pc = "done"
    /\ path = <<"/", "x">>
    /\ asked = <<MaxNum + Far, MaxNum + Far>>
    /\ status = <<404>>

\* C9: a ranged GET of the file whose header value is empty or whitespace is
\* parsed as (None, None) and answered with the whole file. (Violated: the
\* comparison of None with the file length raises TypeError; nothing is sent.)
C9_EmptyIsFullFile ==
    (Completed /\ Ranged /\ path = FilePath /\ strip(headers["Range"]) = <<>>) =>
        /\ range = <<None, None>>
        /\ status \in {<<200>>, <<206>>}
        /\ body = disk

\* C10: for a file of L >= 1 bytes, the body of a completed GET with
\* Range: bytes=0-(L-1) is the body the last completed GET without a Range
\* header got; the one is answered 206, the other 200.
C10_FullFileEquivalence ==
    (Completed /\ path = FilePath /\ Len(disk) >= 1
        /\ asked = <<0, Len(disk) - 1>> /\ plain.status # <<>>) =>
        /\ body = plain.body
        /\ status = <<206>>
        /\ plain.status = <<200>>

\* both requests were made of the longest file, copied in several chunks
C10_Witness ==
    /\ Completed
    /\ path = FilePath
    /\ Len(disk) = MaxLen
    /\ BUFSIZE = 1
    /\ asked = <<0, MaxLen - 1>>
    /\ plain.status = <<200>>
    /\ plain.body = disk
    /\ body = disk

----------------------------------------------------------------------------
\* C11: every successful response for the file, the 200 of a GET without a
\* Range header as the 206 of a ranged one, has the header
\* Accept-Ranges: bytes. (Violated: the 200 is the inherited send_head's,
\* which does not send it.)
C11_AcceptRanges ==
    (Answered /\ path = FilePath /\ status \in {<<200>>, <<206>>}) =>
        /\ HasHeader("Accept-Ranges")
        /\ HeaderValue("Accept-Ranges") = <<"b", "y", "t", "e", "s">>

\* C12: a ranged GET that opened the file and was answered (206 copied to
\* the end, copy cut short by a failed read or write, 416) ends with the file
\* closed. (Violated: after the 416 nothing closes the file.)
C12_HandleClosed ==
    (pc = "done" /\ Ranged /\ f # NoFile /\ status # <<>>) => f.closed

\* C13: a ranged GET writes exactly one status line; body bytes are written
\* only after a 206 status line; an exchange answered 400, 404 or 416 wrote
\* nothing of a 206 response. (Violated: the exchange of the empty Range
\* value of C9 ends with no status line at all.)
C13_OneStatusLine ==
    (Answered /\ Ranged) =>
        /\ Len(status) = 1
        /\ body # <<>> => status = <<206>>
        /\ status[1] \in {400, 404, 416}
              => (~HasHeader("Content-Range") /\ body = <<>>)

\* C14: a GET with a Range header for a path that is a directory gets the
\* inherited send_head's response, and self.range stays None. (Violated:
\* /d, the directory asked for without the slash, is answered 404 by the
\* range branch and not redirected.)
C14_DirectoryDelegated ==
    (Answered /\ "Range" \in DOMAIN headers /\ Entry(translate_path(path)) = "dir") =>
        /\ range = NoRange
        /\ status = SimpleHTTPRequestHandler_send_head(path, disk).status
        /\ hdrs = SimpleHTTPRequestHandler_send_head(path, disk).hdrs

\* C15: whatever the requests before it were, a completed GET of the file
\* without a Range header is answered 200 with the whole file; the loop of
\* copyfile runs only for a request of the range branch, with the range
\* parsed from that request's header, and the plain copy runs with no range.
C15_NoCarryOver ==
    /\ (Completed /\ path = FilePath /\ "Range" \notin DOMAIN headers)
          => (status = <<200>> /\ body = disk /\ range = NoRange)
    /\ pc = "loop"
          => (Ranged /\ range = parse_byte_range(headers["Range"]).value)
    /\ pc = "copyfileobj" => (range = NoRange /\ Delegated(path, headers))

\* a plain GET of the longest file was served whole by a handler that still
\* had the range of an earlier request when it arrived
C15_Witness ==
    /\ Completed
    /\ stale
    /\ path = FilePath
    /\ "Range" \notin DOMAIN headers
    /\ Len(disk) = MaxLen
    /\ status = <<200>>
    /\ body = disk

\* C16: with no failing read or write, the loop of copyfile is left only by
\* a read that returned no bytes. (Violated: for 'bytes=1-1' the loop is left
\* by the ZeroDivisionError of C19, after the byte was written.)
C16_ExitOnlyOnEmptyRead ==
    [][(pc = "loop" /\ pc' # "loop" /\ exc' # "IOError")
          => (body' = body /\ exc' = "none")]_vars

\* C17: for a GET of the file without a Range header, send_head leaves the
\* inherited response as it was written (200, Content-Length the file size),
\* records the file's length, and returns the file object at the position it
\* had; the completed copy sends the whole file.
C17_PlainUnaltered ==
    (Answered /\ path = FilePath /\ "Range" \notin DOMAIN headers) =>
        /\ status = <<200>>
        /\ hdrs = SimpleHTTPRequestHandler_send_head(path, disk).hdrs
        /\ HeaderValue("Content-Length") = str(Len(disk))
        /\ file_length = Len(disk)
        /\ pc \in {"copyfile", "copyfileobj"} => (f.pos = 0 /\ ~f.closed)
        /\ Completed => body = disk

\* the longest file was served whole to a GET without a Range header
C17_Witness ==
    /\ Completed
    /\ path = FilePath
    /\ "Range" \notin DOMAIN headers
    /\ Len(disk) = MaxLen
    /\ file_length = MaxLen
    /\ HeaderValue("Content-Length") = str(MaxLen)
    /\ body = disk

\* C18: parse_byte_range(s) has the outcome of parse_byte_range(s.strip()),
\* the same pair or failure. (Violated: 'bytes=0-1 ' fails, 'bytes=0-1'
\* gives (0, 1); only the test for the empty value is made on s.strip().)
C18_TrimmedFirst ==
    pc = "parsed" =>
        LET r == parse_byte_range(strip(headers["Range"])) IN
        /\ range = r.value
        /\ (exc = "none") = r.ok

\* C19: for every GET answered 206 whose reads and writes did not fail,
\* copyfile returns without raising. (Violated: for 'bytes=1-1'
\* approx_bytes is 0 and acc * 100 / approx_bytes raises ZeroDivisionError.)
C19_CopyReturns ==
    (pc = "done" /\ status = <<206>> /\ exc # "IOError") => exc = "none"

====
